---- MODULE Spec2Model ----
(***************************************************************************)
(* Brand-voice service: brands, versioned voice profiles and evaluations.  *)
(* Every HTTP request runs in its own database session; a request is a     *)
(* process whose position (pc) advances at each database statement and     *)
(* each network call, so requests interleave exactly at those points.      *)
(* Scores are kept in hundredths (0.5 is 50).                              *)
(***************************************************************************)
EXTENDS Integers, Sequences, FiniteSets, TLC

VARIABLES brands, voice_profiles, voice_evaluations,
          USE_STUB_LLM,
          pc, req, next_version, site_text, voice_profile, evaluation,
          llm_response, session, resp, calls, brand_response,
          digest, stub_last, stub_now, stub_calls

vars == <<brands, voice_profiles, voice_evaluations, USE_STUB_LLM,
          pc, req, next_version, site_text, voice_profile, evaluation,
          llm_response, session, resp, calls, brand_response,
          digest, stub_last, stub_now, stub_calls>>

tables == <<brands, voice_profiles, voice_evaluations>>

(* The stub gateway's calls: the service never builds a StubLLM, so no     *)
(* request changes these; they change when the stub is called directly.   *)
stub_vars == <<digest, stub_last, stub_now, stub_calls>>

service_vars == <<brands, voice_profiles, voice_evaluations, USE_STUB_LLM,
                  pc, req, next_version, site_text, voice_profile, evaluation,
                  llm_response, session, resp, calls, brand_response>>

(* ------------------------------ bounds --------------------------------- *)
MaxUuid == 2
HexDigits == 2
MaxStubCalls == 2

Reqs == 1..2
BrandIds == 1..2

(* ------------------------- request payloads ---------------------------- *)
BrandNames == {"Acme"}
CanonicalUrls == {"https://acme.com"}
UrlLists == {<<>>, <<"https://acme.com">>}
SampleLists == {<<>>, <<"Hi there, friend!">>}
Models == {"command-r"}
Texts == {"Hello"}
Versions == 1..MaxUuid

MetricNames == {"warmth", "seriousness", "technicality", "formality", "playfulness"}

NoRequest ==
  [op |-> "none", brand_id |-> 0, version |-> 0, urls |-> <<>>,
   writing_samples |-> <<>>, llm_model |-> "", text |-> ""]

NoResponse == [status |-> 0, error |-> "", service |-> ""]

NoCalls == [fetch |-> 0, provider |-> 0, stub |-> 0, rollback |-> 0]

NoCall == [fn |-> "none", args |-> <<>>, result |-> <<>>]

NoLLMResponse == [finish_reason |-> "", json |-> FALSE, keys |-> {}, metrics |-> <<>>]

(* Variant: the validator accepts every body.                              *)
validate_inputs_AcceptAll(urls, writing_samples) == TRUE

(* VoiceProfileInputs.validate_inputs: at least one of urls / samples.     *)
validate_inputs(urls, writing_samples) ==
  ~(urls = <<>> /\ writing_samples = <<>>)

(* ---------------------------- database --------------------------------- *)
(* db.query(BrandDB).filter(BrandDB.id == brand_id).first(): <<>> is None. *)
BrandById(brand_id) ==
  IF \E b \in brands : b.id = brand_id
    THEN <<CHOOSE b \in brands : b.id = brand_id>>
    ELSE <<>>

ProfilesOf(brand_id) == {p \in voice_profiles : p.brand_id = brand_id}

(* query(VoiceProfileDB).filter(brand_id).order_by(desc(version)).first()  *)
LatestVoice(brand_id) ==
  LET rows == ProfilesOf(brand_id) IN
  IF rows = {} THEN <<>>
  ELSE <<CHOOSE p \in rows : \A q \in rows : q.version <= p.version>>

(* Variant: the increment is forgotten.                                    *)
NextVersion_NoIncrement(latest_voice) ==
  IF latest_voice = <<>> THEN 1 ELSE latest_voice[1].version

(* Variant: the next version leaves one number out.                        *)
NextVersion_Skips(latest_voice) ==
  IF latest_voice = <<>> THEN 1 ELSE latest_voice[1].version + 2

(* next_version = 1 if latest_voice is None else latest_voice.version + 1  *)
NextVersion(latest_voice) ==
  IF latest_voice = <<>> THEN 1 ELSE latest_voice[1].version + 1

(* Variant: the version filter is dropped.                                 *)
get_voice_profile_by_version_AnyVersion(brand_id, version) ==
  LET rows == {p \in voice_profiles : p.brand_id = brand_id} IN
  IF rows = {} THEN <<>> ELSE <<CHOOSE p \in rows : TRUE>>

(* Variant: the brand filter is dropped.                                   *)
get_voice_profile_by_version_AnyBrand(brand_id, version) ==
  LET rows == {p \in voice_profiles : p.version = version} IN
  IF rows = {} THEN <<>> ELSE <<CHOOSE p \in rows : TRUE>>

(* query(VoiceProfileDB).filter(brand_id == b, version == v).first()       *)
get_voice_profile_by_version(brand_id, version) ==
  LET rows == {p \in voice_profiles : p.brand_id = brand_id /\ p.version = version} IN
  IF rows = {} THEN <<>> ELSE <<CHOOSE p \in rows : TRUE>>

(* Variant: the table has its primary key only.                            *)
UniqueOk_PrimaryKeyOnly(row) == \A p \in voice_profiles : p.id # row.id

(* UniqueConstraint("brand_id", "version") and the primary key on id:      *)
(* TRUE when the table accepts the row.                                    *)
UniqueOk(row) ==
  /\ \A p \in voice_profiles :
       ~(p.brand_id = row.brand_id /\ p.version = row.version)
  /\ \A p \in voice_profiles : p.id # row.id

(* uuid4(): an id that no stored row and no pending row carries; the least *)
(* unused index stands for it (an id is visible only once its row is       *)
(* stored, so which fresh value is drawn cannot be observed).              *)
UsedIds ==
  {p.id : p \in voice_profiles} \cup {e.id : e \in voice_evaluations}
    \cup UNION {{x.id : x \in session[r]} : r \in Reqs}

uuid4 == CHOOSE n \in 1..(MaxUuid + 1) :
           n \notin UsedIds /\ \A m \in 1..(n - 1) : m \in UsedIds

(* ------------------------------ Init ----------------------------------- *)
Init ==
  /\ brands = {}
  /\ voice_profiles = {}
  /\ voice_evaluations = {}
  /\ USE_STUB_LLM \in BOOLEAN
  /\ pc = [r \in Reqs |-> "idle"]
  /\ req = [r \in Reqs |-> NoRequest]
  /\ next_version = [r \in Reqs |-> 0]
  /\ site_text = [r \in Reqs |-> <<>>]
  /\ voice_profile = [r \in Reqs |-> <<>>]
  /\ evaluation = [r \in Reqs |-> <<>>]
  /\ llm_response = [r \in Reqs |-> NoLLMResponse]
  /\ session = [r \in Reqs |-> {}]
  /\ resp = [r \in Reqs |-> NoResponse]
  /\ calls = [r \in Reqs |-> NoCalls]
  /\ brand_response = [r \in Reqs |-> <<>>]
  /\ digest = <<>>
  /\ stub_last = NoCall
  /\ stub_now = NoCall
  /\ stub_calls = 0


(* --------------------------- collaborators ----------------------------- *)
(* fetch_page_text: the page's visible text, or an error string when the   *)
(* request raises RequestException; it never raises itself.                *)
fetch_page_text(url, outcome) ==
  IF outcome = "ok" THEN "page text" ELSE "Error fetching url"

(* The provider's chat responses: finish_reason, whether the content       *)
(* parses as JSON, the top-level keys of the parsed object and its metrics *)
(* (or scores) object.                                                     *)
GoodMetrics == [m \in MetricNames |-> 50]

GenResponses ==
  { [finish_reason |-> "COMPLETE",   json |-> TRUE,
     keys |-> {"metrics", "target_demographic", "style_guide", "writing_example"},
     metrics |-> GoodMetrics],
    [finish_reason |-> "COMPLETE",   json |-> TRUE,
     keys |-> {"metrics", "target_demographic"},
     metrics |-> GoodMetrics],
    [finish_reason |-> "COMPLETE",   json |-> FALSE, keys |-> {}, metrics |-> <<>>],
    [finish_reason |-> "MAX_TOKENS", json |-> TRUE,
     keys |-> {"metrics", "target_demographic", "style_guide", "writing_example"},
     metrics |-> GoodMetrics],
    [finish_reason |-> "COMPLETE",   json |-> TRUE,
     keys |-> {"metrics", "target_demographic", "style_guide", "writing_example"},
     metrics |-> [m \in MetricNames |-> 150]] }

EvalResponses ==
  { [finish_reason |-> "COMPLETE",   json |-> TRUE,
     keys |-> {"scores", "suggestions"}, metrics |-> [m \in MetricNames |-> 80]],
    [finish_reason |-> "COMPLETE",   json |-> TRUE,
     keys |-> {}, metrics |-> <<>>],
    [finish_reason |-> "COMPLETE",   json |-> FALSE, keys |-> {}, metrics |-> <<>>],
    [finish_reason |-> "MAX_TOKENS", json |-> TRUE,
     keys |-> {"scores", "suggestions"}, metrics |-> [m \in MetricNames |-> 80]],
    [finish_reason |-> "COMPLETE",   json |-> TRUE,
     keys |-> {"scores", "suggestions"},
     metrics |-> [m \in {"warmth", "humor"} |-> 150]] }

(* VoiceProfileResponseLLM built from json_response: all fields required.  *)
VoiceProfileResponseLLM(response) ==
  /\ response.json
  /\ {"metrics", "target_demographic", "style_guide", "writing_example"} \subseteq response.keys
  /\ MetricNames \subseteq DOMAIN response.metrics

(* ProviderLLM.generate_voice_profile after the chat call returned: the    *)
(* profile, or None (<<>>) when the response is incomplete or unparseable. *)
ProviderGenerate(brand, model, response, id) ==
  IF response.finish_reason = "COMPLETE" /\ VoiceProfileResponseLLM(response)
    THEN <<[id |-> id, brand_id |-> brand.id, version |-> 1,
            metrics |-> [m \in MetricNames |-> response.metrics[m]],
            llm_model |-> model, source |-> "mixed"]>>
    ELSE <<>>

default_scores == [m \in MetricNames |-> 50]
default_suggestions == <<"Review the text against the brand's style guide">>
llm_suggestions == <<"suggestion1">>

Clamp(x) == IF x < 0 THEN 0 ELSE IF x > 100 THEN 100 ELSE x

(* ProviderLLM.evaluate_text after the chat call returned.                 *)
ProviderEvaluate(voice, text, response) ==
  IF response.finish_reason = "COMPLETE" /\ response.json
    THEN LET scores == IF "scores" \in response.keys THEN response.metrics ELSE default_scores
             suggestions == IF "suggestions" \in response.keys
                              THEN llm_suggestions ELSE default_suggestions
         IN [brand_id |-> voice.brand_id, voice_profile_id |-> voice.id,
             input_text |-> text,
             scores |-> [m \in (DOMAIN scores) \cup MetricNames |->
                           IF m \in MetricNames
                             THEN Clamp(IF m \in DOMAIN scores THEN scores[m]
                                                               ELSE default_scores[m])
                             ELSE scores[m]],
             suggestions |-> suggestions]
    ELSE [brand_id |-> voice.brand_id, voice_profile_id |-> voice.id,
          input_text |-> text, scores |-> default_scores,
          suggestions |-> default_suggestions]

(* Variant: the insert is not checked against the constraint.              *)
CommitProfile_NoConstraint(row, db_ok) ==
  IF ~db_ok THEN "OperationalError" ELSE "ok"

(* Session.commit() of one pending voice_profiles row.                     *)
CommitProfile(row, db_ok) ==
  IF ~db_ok THEN "OperationalError"
  ELSE IF ~UniqueOk(row) THEN "IntegrityError"
  ELSE "ok"

(* The gateway the service builds: ProviderLLM(model), whatever the flag.  *)
LLMBackend(use_stub) == "provider"


(* ------------------------------ stub gateway --------------------------- *)
(* hashlib.sha256(seed.encode()).hexdigest() cut to its first hex digits,  *)
(* as a number: a fixed function of the seed whose values the model does   *)
(* not compute.  digest remembers the value of every seed of the latest    *)
(* call; a call draws a value for each seed it has not met there.  The     *)
(* prefix is HexDigits digits long (8 in stub.py).                         *)
HashMax == 16^HexDigits - 1

(* The values drawn: the ends of the range for the five seeds of a         *)
(* profile or an evaluation, and the ends, their neighbours and the        *)
(* middle for a single score.                                              *)
DigestValues == {0, HashMax}

ScoreDigestValues ==
  {0, 1, HashMax \div 2, HashMax \div 2 + 1, HashMax - 1, HashMax}

Sha256Draws(seeds, values) ==
  {d \in [seeds -> values \cup {digest[s] : s \in seeds \cap DOMAIN digest}] :
     \A s \in seeds \cap DOMAIN digest : d[s] = digest[s]}

(* round(n / d, 2) in hundredths; n / d is never half-way when d is odd.   *)
Round2(n, d) == (200 * n + d) \div (2 * d)

(* Variant: the quotient is taken over half the range.                     *)
deterministic_score_HalfRange(sha, seed) == Round2(sha[seed], HashMax \div 2)

(* StubLLM._deterministic_score, sha being the digest prefix of each seed. *)
deterministic_score(sha, seed) == Round2(sha[seed], HashMax)

RECURSIVE JoinSpace(_)
JoinSpace(strs) ==
  IF strs = <<>> THEN ""
  ELSE IF Len(strs) = 1 THEN strs[1]
  ELSE strs[1] \o " " \o JoinSpace(Tail(strs))

(* seed_text = (site_text or "") + " ".join(samples or []); a site_text of *)
(* None behaves as "" here and in the source test below.                   *)
seed_text(stub_site_text, samples) == stub_site_text \o JoinSpace(samples)

(* Variant: samples are looked at before the site text.                    *)
voice_source_SamplesFirst(stub_site_text, samples) ==
  IF stub_site_text # "" /\ samples # <<>> THEN "mixed"
  ELSE IF samples # <<>> THEN "manual"
  ELSE "site"

(* StubLLM.generate_voice_profile: the source tag by input presence.       *)
voice_source(stub_site_text, samples) ==
  IF stub_site_text # "" /\ samples # <<>> THEN "mixed"
  ELSE IF stub_site_text # "" THEN "site"
  ELSE "manual"

(* Variant: the writing example carries the time of the call.              *)
StubGenerate_Timestamped(stub_brand, stub_site_text, samples, sha, id, created_at, updated_at) ==
  [id |-> id, brand_id |-> stub_brand.id, version |-> 1,
   metrics |-> [m \in MetricNames |->
                  deterministic_score(sha, seed_text(stub_site_text, samples) \o m)],
   target_demographic |-> "Deterministic demographic for " \o stub_brand.name,
   style_guide |-> <<"Always mention " \o stub_brand.name, "Keep sentences short">>,
   writing_example |-> IF created_at = 1
                         THEN "This is a sample writing style for " \o stub_brand.name \o "."
                         ELSE "This is a later sample writing style.",
   llm_model |-> "stub-llm",
   source |-> voice_source(stub_site_text, samples),
   created_at |-> created_at, updated_at |-> updated_at]

(* StubLLM.generate_voice_profile; id is the uuid4() of the call,          *)
(* created_at and updated_at its two datetime.now().                       *)
StubGenerate(stub_brand, stub_site_text, samples, sha, id, created_at, updated_at) ==
  [id |-> id, brand_id |-> stub_brand.id, version |-> 1,
   metrics |-> [m \in MetricNames |->
                  deterministic_score(sha, seed_text(stub_site_text, samples) \o m)],
   target_demographic |-> "Deterministic demographic for " \o stub_brand.name,
   style_guide |-> <<"Always mention " \o stub_brand.name, "Keep sentences short">>,
   writing_example |-> "This is a sample writing style for " \o stub_brand.name \o ".",
   llm_model |-> "stub-llm",
   source |-> voice_source(stub_site_text, samples),
   created_at |-> created_at, updated_at |-> updated_at]

(* StubLLM.evaluate_text: one score and one suggestion per key of the      *)
(* voice's metrics; created_at and updated_at stay None (0).               *)
StubEvaluate(voice, text, sha, id) ==
  [id |-> id, brand_id |-> voice.brand_id, voice_profile_id |-> voice.id,
   input_text |-> text,
   scores |-> [k \in DOMAIN voice.metrics |-> deterministic_score(sha, text \o k)],
   suggestions |-> [k \in DOMAIN voice.metrics |-> "Consider adjusting " \o k \o " tone."],
   created_at |-> 0, updated_at |-> 0]

(* Arguments of direct calls of the stub.                                  *)
StubSeeds == {"", "seed", "another seed"}
StubBrands == {[id |-> 1, name |-> "Acme", canonical_url |-> "https://acme.com"]}
StubSiteTexts == {"", "page text"}
StubVoices ==
  {[id |-> 1, brand_id |-> 1, metrics |-> GoodMetrics],
   [id |-> 1, brand_id |-> 1, metrics |-> [k \in {"warmth"} |-> 50]]}
StubUuids == 1..2
Times == 1..2

(* A call of the stub: stub_last keeps the call before it when that one    *)
(* was the same function with the same arguments.  A run makes at most     *)
(* MaxStubCalls calls.                                                     *)
StubCall(fn, args, result, sha) ==
  /\ stub_calls < MaxStubCalls
  /\ stub_calls' = stub_calls + 1
  /\ stub_now' = [fn |-> fn, args |-> args, result |-> result]
  /\ stub_last' = IF stub_now.fn = fn /\ stub_now.args = args THEN stub_now ELSE NoCall
  /\ digest' = sha
  /\ UNCHANGED service_vars

CallDeterministicScore ==
  \E seed \in StubSeeds :
    \E sha \in Sha256Draws({seed}, ScoreDigestValues) :
      StubCall("_deterministic_score", <<seed>>, deterministic_score(sha, seed), sha)

CallStubGenerate ==
  \E stub_brand \in StubBrands, stub_site_text \in StubSiteTexts, samples \in SampleLists,
     id \in StubUuids, created_at \in Times, updated_at \in Times :
    /\ created_at <= updated_at
    /\ \E sha \in Sha256Draws({seed_text(stub_site_text, samples) \o m : m \in MetricNames},
                               DigestValues) :
         StubCall("generate_voice_profile", <<stub_brand, stub_site_text, samples>>,
                  StubGenerate(stub_brand, stub_site_text, samples, sha, id,
                               created_at, updated_at), sha)

CallStubEvaluate ==
  \E voice \in StubVoices, text \in Texts, id \in StubUuids :
    \E sha \in Sha256Draws({text \o k : k \in DOMAIN voice.metrics}, DigestValues) :
      StubCall("evaluate_text", <<voice, text>>, StubEvaluate(voice, text, sha, id), sha)

StubNext == CallDeterministicScore \/ CallStubGenerate \/ CallStubEvaluate

(* The unit tests call the stub with the flag set.                         *)
StubInit == Init /\ USE_STUB_LLM

StubSpec == StubInit /\ [][StubNext]_vars

(* ------------------------------ requests ------------------------------- *)
(* The handler returns or raises: the response is fixed and get_db's       *)
(* finally closes the session (pending rows are discarded, an open         *)
(* transaction is rolled back).  body is the voice_profile of the response.*)
Finish(r, request, status, error, service) ==
  /\ pc' = [pc EXCEPT ![r] = "done"]
  /\ resp' = [resp EXCEPT ![r] = [status |-> status, error |-> error, service |-> service]]
  /\ session' = [session EXCEPT ![r] = {}]
  /\ next_version' = [next_version EXCEPT ![r] = 0]
  /\ site_text' = [site_text EXCEPT ![r] = <<>>]
  /\ evaluation' = [evaluation EXCEPT ![r] = <<>>]
  /\ req' = [req EXCEPT ![r] = request]

Respond(r, op, status, error, service, body) ==
  /\ Finish(r, [NoRequest EXCEPT !.op = op], status, error, service)
  /\ voice_profile' = [voice_profile EXCEPT ![r] = body]
  /\ brand_response' = [brand_response EXCEPT ![r] = <<>>]

(* Variant: the row stays in the table although the commit failed.         *)
CommitRow_Always(table, row, db_ok) == table \cup {row}

(* Session.commit() of one pending brands or voice_evaluations row.        *)
CommitRow(table, row, db_ok) == IF db_ok THEN table \cup {row} ELSE table

(* Variant: the except clause re-raises without rolling back.            *)
Rollbacks_None(n, db_ok) == n

(* create_brand's except clause: db.rollback() once, then re-raise.        *)
Rollbacks(n, db_ok) == IF db_ok THEN n ELSE n + 1

(* POST /brands/ : BrandService.create_brand, one add + commit; a failure  *)
(* is rolled back and re-raised.                                           *)
CreateBrand(r) ==
  /\ pc[r] = "idle"
  /\ \E name \in BrandNames, canonical_url \in CanonicalUrls, db_ok \in BOOLEAN :
       \E id \in BrandIds :
         /\ \A b \in brands : b.id # id
         /\ \A other \in BrandIds : other < id => \E b \in brands : b.id = other
         /\ LET db_brand == [id |-> id, name |-> name, canonical_url |-> canonical_url]
            IN
            /\ brands' = CommitRow(brands, db_brand, db_ok)
            /\ calls' = [calls EXCEPT ![r].rollback = Rollbacks(@, db_ok)]
            /\ voice_profile' = [voice_profile EXCEPT ![r] = <<>>]
            /\ IF db_ok
                 THEN /\ Finish(r, [NoRequest EXCEPT !.op = "create_brand"],
                                201, "", "returned")
                      /\ brand_response' = [brand_response EXCEPT ![r] = <<db_brand>>]
                 ELSE /\ Finish(r, [NoRequest EXCEPT !.op = "create_brand"],
                                500, "OperationalError", "raised")
                      /\ brand_response' = [brand_response EXCEPT ![r] = <<>>]
  /\ UNCHANGED <<voice_profiles, voice_evaluations, USE_STUB_LLM, stub_vars, llm_response>>

(* POST /brands/{brand_id}/voices:generate: the body is validated before   *)
(* the handler runs (422 when neither urls nor samples are given); then    *)
(* generate_voice_profile queries the brand, and a missing brand is        *)
(* answered with a failure response, which the route turns into 404 (the   *)
(* request keeps the inputs it was sent with).                             *)
BeginGenerate(r) ==
  /\ pc[r] = "idle"
  /\ \E brand_id \in BrandIds, urls \in UrlLists, writing_samples \in SampleLists,
        llm_model \in Models :
       IF ~validate_inputs(urls, writing_samples)
         THEN Respond(r, "generate", 422, "ValidationError", "", <<>>)
         ELSE IF BrandById(brand_id) = <<>>
           THEN /\ Finish(r, [NoRequest EXCEPT !.op = "generate", !.urls = urls,
                                               !.writing_samples = writing_samples],
                           404, "Brand with id not found", "returned_failure")
                /\ voice_profile' = [voice_profile EXCEPT ![r] = <<>>]
                /\ brand_response' = [brand_response EXCEPT ![r] = <<>>]
           ELSE /\ req' = [req EXCEPT ![r] =
                     [op |-> "generate", brand_id |-> brand_id, version |-> 0,
                      urls |-> urls, writing_samples |-> writing_samples,
                      llm_model |-> llm_model, text |-> ""]]
                /\ pc' = [pc EXCEPT ![r] = "g_max"]
                /\ UNCHANGED <<resp, voice_profile, session, next_version, site_text,
                               evaluation, brand_response>>
  /\ UNCHANGED <<tables, USE_STUB_LLM, stub_vars, llm_response, calls>>

(* Variant: the latest-version query waits while another request is       *)
(* between its own query and its commit.                                   *)
GenReadMax_WaitsForOthers(r) ==
  /\ pc[r] = "g_max"
  /\ \A other \in Reqs \ {r} : pc[other] \notin {"g_fetch", "g_llm", "g_commit"}
  /\ next_version' = [next_version EXCEPT ![r] = NextVersion(LatestVoice(req[r].brand_id))]
  /\ pc' = [pc EXCEPT ![r] = "g_fetch"]
  /\ UNCHANGED <<tables, USE_STUB_LLM, stub_vars, req, site_text, voice_profile,
                 evaluation, llm_response, session, resp, calls, brand_response>>

(* generate_voice_profile: the latest-version query and next_version.      *)
GenReadMax(r) ==
  /\ pc[r] = "g_max"
  /\ next_version' = [next_version EXCEPT ![r] = NextVersion(LatestVoice(req[r].brand_id))]
  /\ pc' = [pc EXCEPT ![r] = "g_fetch"]
  /\ UNCHANGED <<tables, USE_STUB_LLM, stub_vars, req, site_text, voice_profile,
                 evaluation, llm_response, session, resp, calls, brand_response>>

(* Variant: a page fetch that fails raises out of the handler.             *)
GenFetch_RaisesOnError(r) ==
  /\ pc[r] = "g_fetch"
  /\ calls' = [calls EXCEPT ![r].fetch = @ + Len(req[r].urls)]
  /\ \E outcome \in [1..Len(req[r].urls) -> {"ok", "error"}] :
       IF \E i \in 1..Len(req[r].urls) : outcome[i] = "error"
         THEN Respond(r, "generate", 500, "RequestException", "raised", <<>>)
         ELSE /\ site_text' = [site_text EXCEPT ![r] =
                   [i \in 1..Len(req[r].urls) |-> fetch_page_text(req[r].urls[i], outcome[i])]]
              /\ pc' = [pc EXCEPT ![r] = "g_llm"]
              /\ UNCHANGED <<req, next_version, voice_profile, evaluation, session, resp,
                             brand_response>>
  /\ UNCHANGED <<tables, USE_STUB_LLM, stub_vars, llm_response>>

(* generate_voice_profile: one fetch_page_text per url.                    *)
GenFetch(r) ==
  /\ pc[r] = "g_fetch"
  /\ \E outcome \in [1..Len(req[r].urls) -> {"ok", "error"}] :
       site_text' = [site_text EXCEPT ![r] =
          [i \in 1..Len(req[r].urls) |-> fetch_page_text(req[r].urls[i], outcome[i])]]
  /\ calls' = [calls EXCEPT ![r].fetch = @ + Len(req[r].urls)]
  /\ pc' = [pc EXCEPT ![r] = "g_llm"]
  /\ UNCHANGED <<tables, USE_STUB_LLM, stub_vars, req, next_version, voice_profile,
                 evaluation, llm_response, session, resp, brand_response>>

(* Variant: a chat call that raised is made again.                         *)
GenLLMRaises_Retry(r) ==
  /\ pc[r] = "g_llm"
  /\ calls[r].provider < 2
  /\ calls' = [calls EXCEPT ![r].provider = @ + 1]
  /\ UNCHANGED <<tables, USE_STUB_LLM, stub_vars, llm_response, pc, req, next_version,
                 site_text, voice_profile, evaluation, session, resp, brand_response>>

(* generate_voice_profile: the provider's chat call raises.                *)
GenLLMRaises(r) ==
  /\ pc[r] = "g_llm"
  /\ calls' = [calls EXCEPT ![r][LLMBackend(USE_STUB_LLM)] = @ + 1]
  /\ Respond(r, "generate", 500, "ProviderError", "raised", <<>>)
  /\ UNCHANGED <<tables, USE_STUB_LLM, stub_vars, llm_response>>

(* Variant: the gateway's version is kept.                                 *)
OverrideVersion_Keep(profile, version) == profile

(* voice_profile.version = next_version                                    *)
OverrideVersion(profile, version) == [profile EXCEPT !.version = version]

(* generate_voice_profile: the chat call returns; the result's version is  *)
(* overwritten and the row is added to the session.  A None result makes   *)
(* the version assignment raise AttributeError.                            *)
GenLLMReturns(r) ==
  /\ pc[r] = "g_llm"
  /\ uuid4 <= MaxUuid
  /\ \E response \in GenResponses :
       LET result == ProviderGenerate(BrandById(req[r].brand_id)[1], req[r].llm_model,
                                      response, uuid4)
       IN /\ llm_response' = [llm_response EXCEPT ![r] = response]
          /\ IF result = <<>>
               THEN Respond(r, "generate", 500, "AttributeError", "raised", <<>>)
               ELSE LET final == OverrideVersion(result[1], next_version[r])
                    IN /\ voice_profile' = [voice_profile EXCEPT ![r] = <<final>>]
                       /\ session' = [session EXCEPT ![r] = {final}]
                       /\ pc' = [pc EXCEPT ![r] = "g_commit"]
                       /\ UNCHANGED <<resp, next_version, site_text, evaluation, req,
                                      brand_response>>
  /\ calls' = [calls EXCEPT ![r][LLMBackend(USE_STUB_LLM)] = @ + 1]
  /\ UNCHANGED <<tables, USE_STUB_LLM, stub_vars>>

(* Variant: a failed commit leaves its row behind.                         *)
ProfilesAfterCommit_Partial(row, outcome) == voice_profiles \cup {row}

(* Variant: the commit keeps the profiles of the row's own brand only.     *)
ProfilesAfterCommit_OwnBrandOnly(row, outcome) ==
  IF outcome = "ok"
    THEN {p \in voice_profiles : p.brand_id = row.brand_id} \cup {row}
    ELSE voice_profiles

(* The voice_profiles table after commit() ended with outcome.             *)
ProfilesAfterCommit(row, outcome) ==
  IF outcome = "ok" THEN voice_profiles \cup {row} ELSE voice_profiles

(* generate_voice_profile: db.commit() of the new row, then the response.  *)
GenCommit(r) ==
  /\ pc[r] = "g_commit"
  /\ \E db_ok \in BOOLEAN, row \in session[r] :
       LET outcome == CommitProfile(row, db_ok)
       IN /\ voice_profiles' = ProfilesAfterCommit(row, outcome)
          /\ IF outcome = "ok"
               THEN Respond(r, "generate", 201, "", "returned", voice_profile[r])
               ELSE Respond(r, "generate", 500, outcome, "raised", <<>>)
  /\ UNCHANGED <<brands, voice_evaluations, USE_STUB_LLM, stub_vars, llm_response, calls>>

(* The response has left; the worker takes the next request.               *)
Close(r) ==
  /\ pc[r] = "done"
  /\ pc' = [pc EXCEPT ![r] = "idle"]
  /\ req' = [req EXCEPT ![r] = NoRequest]
  /\ voice_profile' = [voice_profile EXCEPT ![r] = <<>>]
  /\ llm_response' = [llm_response EXCEPT ![r] = NoLLMResponse]
  /\ resp' = [resp EXCEPT ![r] = NoResponse]
  /\ calls' = [calls EXCEPT ![r] = NoCalls]
  /\ brand_response' = [brand_response EXCEPT ![r] = <<>>]
  /\ UNCHANGED <<tables, USE_STUB_LLM, stub_vars, next_version, site_text, evaluation, session>>

(* POST /brands/{brand_id}/voices/{version}/evaluate: evaluate_voice looks  *)
(* the profile up; None is answered with 404.                              *)
BeginEvaluate(r) ==
  /\ pc[r] = "idle"
  /\ \E brand_id \in BrandIds, version \in Versions, text \in Texts :
       LET found == get_voice_profile_by_version(brand_id, version)
       IN IF found = <<>>
            THEN Respond(r, "evaluate", 404, "Voice profile version not found",
                         "returned_none", <<>>)
            ELSE /\ req' = [req EXCEPT ![r] =
                      [NoRequest EXCEPT !.op = "evaluate", !.brand_id = brand_id,
                                        !.version = version, !.text = text]]
                 /\ voice_profile' = [voice_profile EXCEPT ![r] = found]
                 /\ pc' = [pc EXCEPT ![r] = "e_llm"]
                 /\ UNCHANGED <<resp, session, next_version, site_text, evaluation,
                                brand_response>>
  /\ UNCHANGED <<tables, USE_STUB_LLM, stub_vars, llm_response, calls>>

(* evaluate_text: the provider's chat call raises.                         *)
EvalLLMRaises(r) ==
  /\ pc[r] = "e_llm"
  /\ calls' = [calls EXCEPT ![r][LLMBackend(USE_STUB_LLM)] = @ + 1]
  /\ Respond(r, "evaluate", 500, "ProviderError", "raised", <<>>)
  /\ UNCHANGED <<tables, USE_STUB_LLM, stub_vars, llm_response>>

(* evaluate_text returns; the route builds the VoiceEvaluationDB row with  *)
(* a fresh id and add_voice_evaluation adds it to the session.             *)
EvalLLMReturns(r) ==
  /\ pc[r] = "e_llm"
  /\ uuid4 <= MaxUuid
  /\ \E response \in EvalResponses :
       LET result == ProviderEvaluate(voice_profile[r][1], req[r].text, response)
           row == [id |-> uuid4, brand_id |-> req[r].brand_id,
                   voice_profile_id |-> voice_profile[r][1].id,
                   input_text |-> req[r].text,
                   scores |-> result.scores, suggestions |-> result.suggestions]
       IN /\ llm_response' = [llm_response EXCEPT ![r] = response]
          /\ evaluation' = [evaluation EXCEPT ![r] = <<result>>]
          /\ session' = [session EXCEPT ![r] = {row}]
  /\ calls' = [calls EXCEPT ![r][LLMBackend(USE_STUB_LLM)] = @ + 1]
  /\ pc' = [pc EXCEPT ![r] = "e_commit"]
  /\ UNCHANGED <<tables, USE_STUB_LLM, stub_vars, req, next_version, site_text, voice_profile, resp,
                 brand_response>>

(* add_voice_evaluation: db.commit() of the new row, then the response.    *)
EvalCommit(r) ==
  /\ pc[r] = "e_commit"
  /\ \E db_ok \in BOOLEAN, row \in session[r] :
       /\ voice_evaluations' = CommitRow(voice_evaluations, row, db_ok)
       /\ IF db_ok
            THEN Respond(r, "evaluate", 201, "", "returned", <<>>)
            ELSE Respond(r, "evaluate", 500, "OperationalError", "raised", <<>>)
  /\ UNCHANGED <<brands, voice_profiles, USE_STUB_LLM, stub_vars, llm_response, calls>>

(* VoiceService.get_latest_voice_profile: the brand's profile of highest   *)
(* version, or None (<<>>).                                                *)
get_latest_voice_profile(brand_id) == LatestVoice(brand_id)

(* GET /brands/{brand_id}/voices/latest: None is answered with 404.        *)
GetLatestVoice(r) ==
  /\ pc[r] = "idle"
  /\ \E brand_id \in BrandIds :
       LET found == get_latest_voice_profile(brand_id)
           request == [NoRequest EXCEPT !.op = "get_latest", !.brand_id = brand_id]
       IN /\ IF found = <<>>
               THEN Finish(r, request, 404, "No voice profile found", "returned_none")
               ELSE Finish(r, request, 200, "", "returned")
          /\ voice_profile' = [voice_profile EXCEPT ![r] = found]
  /\ UNCHANGED <<tables, USE_STUB_LLM, stub_vars, llm_response, calls, brand_response>>

(* GET /brands/{brand_id}/voices/{version}: None is answered with 404.     *)
GetVoiceVersion(r) ==
  /\ pc[r] = "idle"
  /\ \E brand_id \in BrandIds, version \in Versions :
       LET found == get_voice_profile_by_version(brand_id, version)
           request == [NoRequest EXCEPT !.op = "get_version", !.brand_id = brand_id,
                                        !.version = version]
       IN /\ IF found = <<>>
               THEN Finish(r, request, 404, "Voice profile version not found",
                           "returned_none")
               ELSE Finish(r, request, 200, "", "returned")
          /\ voice_profile' = [voice_profile EXCEPT ![r] = found]
  /\ UNCHANGED <<tables, USE_STUB_LLM, stub_vars, llm_response, calls, brand_response>>

(* Variant: the lookup answers with any stored brand.                      *)
get_brand_by_id_AnyBrand(brand_id) ==
  IF brands = {} THEN <<>> ELSE <<CHOOSE b \in brands : b.id # brand_id \/ Cardinality(brands) = 1>>

(* BrandService.get_brand_by_id: the brand with that id, or None (<<>>).   *)
get_brand_by_id(brand_id) == BrandById(brand_id)

(* GET /brands/{brand_id}: None is answered with 404.                      *)
GetBrand(r) ==
  /\ pc[r] = "idle"
  /\ \E brand_id \in BrandIds :
       LET found == get_brand_by_id(brand_id)
           request == [NoRequest EXCEPT !.op = "get_brand", !.brand_id = brand_id]
       IN /\ IF found = <<>>
               THEN Finish(r, request, 404, "Brand with id: not found", "returned_none")
               ELSE Finish(r, request, 200, "", "returned")
          /\ brand_response' = [brand_response EXCEPT ![r] = found]
  /\ voice_profile' = [voice_profile EXCEPT ![r] = <<>>]
  /\ UNCHANGED <<tables, USE_STUB_LLM, stub_vars, llm_response, calls>>

Next ==
  \E r \in Reqs :
    \/ CreateBrand(r)
    \/ BeginGenerate(r)
    \/ GenReadMax(r)
    \/ GenFetch(r)
    \/ GenLLMRaises(r)
    \/ GenLLMReturns(r)
    \/ GenCommit(r)
    \/ BeginEvaluate(r)
    \/ EvalLLMRaises(r)
    \/ EvalLLMReturns(r)
    \/ EvalCommit(r)
    \/ GetLatestVoice(r)
    \/ GetVoiceVersion(r)
    \/ GetBrand(r)
    \/ Close(r)

Spec == Init /\ [][Next]_vars

(* The steps of a request that has begun: each database statement, page    *)
(* fetch and provider call of its handler.                                 *)
Progress(r) ==
  \/ GenReadMax(r) \/ GenFetch(r) \/ GenLLMRaises(r) \/ GenLLMReturns(r) \/ GenCommit(r)
  \/ EvalLLMRaises(r) \/ EvalLLMReturns(r) \/ EvalCommit(r)

(* The flag as settings.py leaves it when the environment does not set it. *)
LiveInit == Init /\ ~USE_STUB_LLM

(* Each worker keeps running its handler: a statement, fetch or provider   *)
(* call that can return does return.                                       *)
LiveSpec == LiveInit /\ [][Next]_vars /\ \A r \in Reqs : WF_vars(Progress(r))

(* ------------------------------ claims --------------------------------- *)
Pending(r) == CHOOSE x \in session[r] : TRUE

StoredVersions(b) == {p.version : p \in {x \in voice_profiles : x.brand_id = b}}

LatestVersion(b) ==
  IF StoredVersions(b) = {} THEN 0
  ELSE CHOOSE v \in StoredVersions(b) : \A w \in StoredVersions(b) : w <= v

Conflict(row) ==
  \E p \in voice_profiles : p.brand_id = row.brand_id /\ p.version = row.version

Ended(r) == pc[r] # "done" /\ pc'[r] = "done"

(* C1: generate for an existing brand computes next_version = 1 when the   *)
(* brand has no stored profile and highest stored version + 1 otherwise,   *)
(* the row it builds carries that version, and a successful commit stores  *)
(* exactly that row; in every step of every behaviour.                     *)
C1_NextVersionIsMaxPlusOne ==
  [][\A r \in Reqs :
       /\ (pc[r] = "g_max" /\ pc'[r] # "g_max") =>
            /\ pc'[r] = "g_fetch"
            /\ next_version'[r] = LatestVersion(req[r].brand_id) + 1
       /\ (pc[r] = "g_llm" /\ pc'[r] = "g_commit") =>
            /\ Pending(r)'.version = next_version[r]
            /\ Pending(r)'.brand_id = req[r].brand_id
       /\ (pc[r] = "g_commit" /\ Ended(r) /\ resp'[r].status = 201) =>
            /\ voice_profiles' = voice_profiles \cup {Pending(r)}
            /\ Pending(r).version = next_version[r]
            /\ voice_profile'[r] = <<Pending(r)>>]_vars

C1_Witness ==
  \E r \in Reqs :
    /\ pc[r] = "done" /\ req[r].op = "generate" /\ resp[r].status = 201
    /\ voice_profile[r][1].version = 2
    /\ \E p \in voice_profiles : p.brand_id = voice_profile[r][1].brand_id /\ p.version = 1

(* C2: no two stored voice profiles share a (brand_id, version) pair, in   *)
(* every reachable state.                                                  *)
C2_BrandVersionUnique ==
  \A p, q \in voice_profiles :
    (p.brand_id = q.brand_id /\ p.version = q.version) => p = q

C2_Witness ==
  \E r \in Reqs :
    /\ pc[r] = "g_commit"
    /\ Conflict(Pending(r))
    /\ Cardinality(voice_profiles) >= 1

(* C3: when a generate request reaches its insert and a row with the same  *)
(* (brand_id, version) was committed meanwhile, the insert fails (the      *)
(* uniqueness violation, or the write failure of the database itself), no  *)
(* row is stored and the request ends with an error without another        *)
(* attempt; without such a row the insert commits unless the database      *)
(* write fails; two finished generate requests never both stored the same  *)
(* pair.                                                                   *)
C3_RaceLoserFailsWithoutRetry ==
  /\ [](\A r1, r2 \in Reqs :
          (r1 # r2 /\ pc[r1] = "done" /\ pc[r2] = "done"
             /\ req[r1].op = "generate" /\ req[r2].op = "generate"
             /\ voice_profile[r1] # <<>> /\ voice_profile[r2] # <<>>)
          => ~(voice_profile[r1][1].brand_id = voice_profile[r2][1].brand_id
               /\ voice_profile[r1][1].version = voice_profile[r2][1].version))
  /\ [][\A r \in Reqs :
          /\ (pc[r] = "g_commit" /\ pc'[r] # "g_commit") =>
               /\ pc'[r] = "done"
               /\ Conflict(Pending(r)) =>
                    /\ voice_profiles' = voice_profiles
                    /\ resp'[r].status = 500
                    /\ resp'[r].error \in {"IntegrityError", "OperationalError"}
                    /\ voice_profile'[r] = <<>>
               /\ ~Conflict(Pending(r)) =>
                    \/ /\ voice_profiles' = voice_profiles \cup {Pending(r)}
                       /\ resp'[r].status = 201
                    \/ /\ voice_profiles' = voice_profiles
                       /\ resp'[r].status = 500
                       /\ resp'[r].error = "OperationalError"
          /\ (pc[r] = "done" /\ pc'[r] # "done") =>
               (pc'[r] = "idle" /\ tables' = tables)]_vars

C3_Witness ==
  \E r1, r2 \in Reqs :
    /\ r1 # r2
    /\ pc[r1] = "done" /\ req[r1].op = "generate" /\ resp[r1].status = 201
    /\ pc[r2] = "done" /\ req[r2].op = "generate" /\ resp[r2].error = "IntegrityError"

(* C4: per brand, every newly stored profile has a version greater than    *)
(* every version stored for the brand before it, the first one is 1, and   *)
(* the brand's latest version never decreases.                             *)
C4_VersionsStrictlyIncrease ==
  [][\A b \in BrandIds :
       /\ LatestVersion(b)' >= LatestVersion(b)
       /\ \A p \in voice_profiles' \ voice_profiles :
            p.brand_id = b =>
              /\ p.version > LatestVersion(b)
              /\ LatestVersion(b) = 0 => p.version = 1
              /\ \E r \in Reqs : Ended(r) /\ voice_profile'[r] = <<p>>]_vars

C4_Witness ==
  \E b \in BrandIds : LatestVersion(b) = 2 /\ Cardinality(StoredVersions(b)) = 2

(* C5: a request that ends in a failure changes none of the three tables   *)
(* and leaves nothing pending in its session; the tables change only in    *)
(* the step in which a request ends with 201.                              *)
C5_FailureLeavesTablesUnchanged ==
  [][/\ \A r \in Reqs :
          (Ended(r) /\ resp'[r].status # 201) =>
            (tables' = tables /\ session'[r] = {})
     /\ tables' # tables =>
          \E r \in Reqs : Ended(r) /\ resp'[r].status = 201 /\ session'[r] = {}]_vars

C5_Witness ==
  /\ \E r \in Reqs : pc[r] = "done" /\ resp[r].error = "IntegrityError"
  /\ \E r \in Reqs : pc[r] = "done" /\ req[r].op = "evaluate"
                       /\ resp[r].error = "OperationalError"

(* What the evaluation prompt asks the provider for: a complete response   *)
(* whose JSON has scores for the five metrics and suggestions.            *)
GoodEvaluateResponse(response) ==
  response.finish_reason = "COMPLETE" /\ response.json
    /\ {"scores", "suggestions"} \subseteq response.keys
    /\ DOMAIN response.metrics = MetricNames

(* C6: a generate request whose provider call raised, or whose provider    *)
(* response is incomplete or not valid JSON of the required shape, ends    *)
(* with a 4xx response (404) carrying an LLM-failure error, and stores no  *)
(* profile.                                                                *)
C6_ProviderFailureIsReportedAs404 ==
  \A r \in Reqs :
    (/\ pc[r] = "done" /\ req[r].op = "generate"
     /\ \/ resp[r].error = "ProviderError"
        \/ /\ llm_response[r] # NoLLMResponse
           /\ ~(/\ llm_response[r].finish_reason = "COMPLETE"
                /\ VoiceProfileResponseLLM(llm_response[r])))
    => /\ resp[r].status = 404
       /\ resp[r].error = "LLMFailure"
       /\ voice_profile[r] = <<>>

(* C7: an evaluate request whose provider response is incomplete or not    *)
(* valid JSON of the required shape has failed: it holds no evaluation     *)
(* (so none built from default scores or suggestions) and never ends 201.  *)
C7_EvaluateFailsOnBadResponse ==
  \A r \in Reqs :
    (/\ req[r].op = "evaluate"
     /\ llm_response[r] # NoLLMResponse
     /\ ~GoodEvaluateResponse(llm_response[r]))
    => /\ pc[r] = "done"
       /\ resp[r].status # 201
       /\ evaluation[r] = <<>>
       /\ session[r] = {}

(* C8: an evaluate request goes on to the gateway only with the stored     *)
(* profile of exactly its (brand_id, version); otherwise it ends at once   *)
(* with 404, having made no gateway call, built no evaluation and changed  *)
(* no table, and it does nothing afterwards.                               *)
C8_EvaluateMissingVersionIs404 ==
  [][\A r \in Reqs :
       /\ (pc[r] = "idle" /\ pc'[r] # "idle" /\ req'[r].op = "evaluate") =>
            \/ /\ pc'[r] = "e_llm"
               /\ \E p \in voice_profiles :
                    /\ p.brand_id = req'[r].brand_id
                    /\ p.version = req'[r].version
                    /\ voice_profile'[r] = <<p>>
            \/ /\ pc'[r] = "done"
               /\ resp'[r].status = 404
               /\ resp'[r].error = "Voice profile version not found"
               /\ calls'[r] = NoCalls
               /\ evaluation'[r] = <<>>
               /\ session'[r] = {}
               /\ tables' = tables
       /\ (pc[r] = "done" /\ resp[r].status = 404 /\ pc'[r] # "done") =>
            (pc'[r] = "idle" /\ tables' = tables /\ calls[r] = NoCalls)]_vars

C8_Witness ==
  /\ \A b \in BrandIds : StoredVersions(b) # {}
  /\ \E r \in Reqs :
       /\ pc[r] = "done" /\ req[r].op = "evaluate"
       /\ resp[r].status = 404 /\ calls[r] = NoCalls

(* C9: a generate request for a brand_id with no brand record ends with    *)
(* 404 because the service raised the error 'Brand with id <id> not        *)
(* found', with no page fetched and no gateway call made.                  *)
C9_MissingBrandRaisesNotFound ==
  \A r \in Reqs :
    (pc[r] = "done" /\ resp[r].error = "Brand with id not found")
    => /\ resp[r].service = "raised"
       /\ resp[r].status = 404
       /\ calls[r] = NoCalls

(* C10: with USE_STUB_LLM true no request calls the real provider, and     *)
(* with it false no request calls the stub.                                *)
C10_StubFlagSelectsBackend ==
  \A r \in Reqs :
    /\ USE_STUB_LLM => calls[r].provider = 0
    /\ ~USE_STUB_LLM => calls[r].stub = 0

Started(r, op) == pc[r] = "idle" /\ pc'[r] = "done" /\ req'[r].op = op

(* C11: get_latest for a brand with stored profiles answers 200 with the   *)
(* stored profile of highest version of that brand; for a brand with none  *)
(* the service raises 'No voice profile found' and the answer is 404.      *)
C11_GetLatestHighestOrRaises ==
  [][\A r \in Reqs : Started(r, "get_latest") =>
       LET b == req'[r].brand_id
       IN IF ProfilesOf(b) = {}
            THEN /\ resp'[r].status = 404
                 /\ resp'[r].error = "No voice profile found"
                 /\ resp'[r].service = "raised"
            ELSE /\ resp'[r].status = 200
                 /\ \E p \in ProfilesOf(b) :
                      /\ voice_profile'[r] = <<p>>
                      /\ \A q \in ProfilesOf(b) : q.version <= p.version]_vars

(* C12: get_by_version answers 200 with the stored profile whose brand_id  *)
(* and version both equal the arguments; when none is stored the service   *)
(* raises and the answer is 404.                                           *)
C12_GetByVersionExactOrRaises ==
  [][\A r \in Reqs : Started(r, "get_version") =>
       LET match == {p \in voice_profiles : /\ p.brand_id = req'[r].brand_id
                                            /\ p.version = req'[r].version}
       IN IF match = {}
            THEN /\ resp'[r].status = 404
                 /\ resp'[r].service = "raised"
                 /\ voice_profile'[r] = <<>>
            ELSE /\ resp'[r].status = 200
                 /\ \E p \in match : voice_profile'[r] = <<p>>]_vars

(* C13: every stored voice profile has metrics with exactly the five       *)
(* metric names as keys, each value in [0,1] (0..100 hundredths).          *)
C13_StoredMetricsInRange ==
  \A p \in voice_profiles :
    /\ DOMAIN p.metrics = MetricNames
    /\ \A m \in MetricNames : p.metrics[m] \in 0..100

(* C14: every stored evaluation has scores with exactly the five metric    *)
(* names as keys, each value in [0,1] (0..100 hundredths).                 *)
C14_StoredScoresInRange ==
  \A e \in voice_evaluations :
    /\ DOMAIN e.scores = MetricNames
    /\ \A m \in DOMAIN e.scores : e.scores[m] \in 0..100

(* C15: the profile a generate request is about to store carries the       *)
(* source tag of the inputs the request supplied: urls only is site,       *)
(* writing samples only is manual, both is mixed.                          *)
C15_SourceTagRecordsInputs ==
  \A r \in Reqs :
    (pc[r] = "g_commit" /\ req[r].op = "generate") =>
      Pending(r).source =
        IF req[r].urls # <<>> /\ req[r].writing_samples # <<>> THEN "mixed"
        ELSE IF req[r].urls # <<>> THEN "site"
        ELSE "manual"

(* C19: a create-brand request whose persistence fails rolls back exactly  *)
(* once, re-raises to the caller and leaves the brands table as it was; a *)
(* successful one rolls back nothing and stores the brand it returns.     *)
C19_CreateBrandFailureRollsBackOnce ==
  [][\A r \in Reqs : Started(r, "create_brand") =>
       IF resp'[r].status = 201
         THEN /\ calls'[r].rollback = 0
              /\ \E row \in brands' \ brands :
                   /\ brands' = brands \cup {row}
                   /\ brand_response'[r] = <<row>>
         ELSE /\ calls'[r].rollback = 1
              /\ resp'[r].service = "raised"
              /\ resp'[r].status = 500
              /\ brand_response'[r] = <<>>
              /\ brands' = brands]_vars

C19_Witness ==
  \E r \in Reqs :
    /\ pc[r] = "done" /\ req[r].op = "create_brand"
    /\ resp[r].service = "raised" /\ calls[r].rollback = 1
    /\ brands # {}

(* C20: the brand a create returns is stored; stored brands are never      *)
(* changed or removed and no two share an id; get_by_id answers 200 with   *)
(* the stored brand of that id (so with the name and canonical_url it was  *)
(* created with), and for an id with no brand the service returns None     *)
(* without raising and the answer is 404.                                  *)
C20_BrandRoundTrip ==
  [][/\ \A b \in brands : b \in brands'
     /\ \A b1, b2 \in brands' : b1.id = b2.id => b1 = b2
     /\ \A r \in Reqs :
          /\ (Started(r, "create_brand") /\ resp'[r].status = 201) =>
               \E b \in brands' : brand_response'[r] = <<b>>
          /\ Started(r, "get_brand") =>
               LET match == {b \in brands : b.id = req'[r].brand_id}
               IN IF match = {}
                    THEN /\ resp'[r].status = 404
                         /\ resp'[r].service = "returned_none"
                         /\ brand_response'[r] = <<>>
                    ELSE /\ resp'[r].status = 200
                         /\ \E b \in match :
                              /\ brand_response'[r] = <<b>>
                              /\ brand_response'[r][1].name = b.name
                              /\ brand_response'[r][1].canonical_url = b.canonical_url]_vars

C20_Witness ==
  \E r, other \in Reqs :
    /\ r # other
    /\ pc[r] = "done" /\ req[r].op = "get_brand" /\ resp[r].status = 200
    /\ brand_response[r] # <<>> /\ brand_response[r][1].id = 1
    /\ Cardinality(brands) = 2 /\ voice_profiles # {}
    /\ pc[other] = "done" /\ req[other].op = "get_brand" /\ resp[other].status = 404

(* C16: the stub's generate_voice_profile tags the profile mixed when the  *)
(* site text and the samples are both non-empty, site when only the site   *)
(* text is, and manual in every other case (samples only, or neither).     *)
C16_StubSourceByInputPresence ==
  stub_now.fn = "generate_voice_profile" =>
    LET given_site_text == stub_now.args[2]
        given_samples == stub_now.args[3]
    IN /\ (given_site_text # "" /\ given_samples # <<>>) => stub_now.result.source = "mixed"
       /\ (given_site_text # "" /\ given_samples = <<>>) => stub_now.result.source = "site"
       /\ given_site_text = "" => stub_now.result.source = "manual"

C16_Witness ==
  /\ stub_now.fn = "generate_voice_profile"
  /\ stub_now.args[2] = "" /\ stub_now.args[3] = <<>>
  /\ stub_now.result.source = "manual"
  /\ stub_calls = 2

(* C17: _deterministic_score lies in [0,1] (0..100 hundredths) for every   *)
(* seed, and a second call with the same seed gives the same score.        *)
C17_DeterministicScorePureInRange ==
  /\ stub_now.fn = "_deterministic_score" => stub_now.result \in 0..100
  /\ stub_last.fn = "_deterministic_score" => stub_last.result = stub_now.result

C17_Witness ==
  /\ stub_last.fn = "_deterministic_score"
  /\ stub_now.fn = "_deterministic_score"
  /\ stub_now.args = stub_last.args
  /\ stub_now.result = 100

WithoutIdAndTimes(result) ==
  [result EXCEPT !.id = 0, !.created_at = 0, !.updated_at = 0]

(* C18 as stated: two calls of the stub's generate_voice_profile or        *)
(* evaluate_text with identical arguments return results identical in      *)
(* every field.                                                            *)
C18_StubOutputIdentical ==
  stub_last.fn \in {"generate_voice_profile", "evaluate_text"} =>
    stub_last.result = stub_now.result

(* C18 amended: two such calls return results identical in every field     *)
(* except id (a fresh uuid4 per call) and created_at and updated_at (the   *)
(* time of the call).                                                      *)
C18_StubOutputIdenticalExceptIdAndTimes ==
  stub_last.fn \in {"generate_voice_profile", "evaluate_text"} =>
    WithoutIdAndTimes(stub_last.result) = WithoutIdAndTimes(stub_now.result)

C18_Witness ==
  /\ stub_last.fn = "generate_voice_profile"
  /\ stub_last.args = stub_now.args
  /\ stub_last.result.id # stub_now.result.id
  /\ stub_last.result.created_at # stub_now.result.created_at
  /\ stub_last.result.metrics = stub_now.result.metrics

(* C21: a voice_evaluations row is stored only by an evaluate request that *)
(* first found its profile, then got a result back from its one call of    *)
(* the gateway's evaluate_text, and then inserted exactly that one row; no *)
(* step of any operation removes or changes a stored evaluation.           *)
C21_EvaluationStoredAfterGatewayReturned ==
  [][/\ voice_evaluations \subseteq voice_evaluations'
     /\ \A r \in Reqs :
          /\ (pc[r] # "e_llm" /\ pc'[r] = "e_llm") =>
               /\ pc[r] = "idle"
               /\ calls'[r].provider = 0
               /\ voice_profile'[r] # <<>>
               /\ voice_profile'[r] =
                    get_voice_profile_by_version(req'[r].brand_id, req'[r].version)
          /\ (pc[r] # "e_commit" /\ pc'[r] = "e_commit") =>
               /\ pc[r] = "e_llm"
               /\ calls[r].provider = 0 /\ calls'[r].provider = 1
               /\ evaluation'[r] # <<>>
               /\ voice_evaluations' = voice_evaluations
               /\ Cardinality(session'[r]) = 1
     /\ voice_evaluations' # voice_evaluations =>
          \E r \in Reqs :
            /\ pc[r] = "e_commit" /\ pc'[r] = "done"
            /\ resp'[r].status = 201
            /\ calls[r].provider = 1
            /\ evaluation[r] # <<>>
            /\ voice_evaluations' = voice_evaluations \cup {Pending(r)}
            /\ Pending(r).scores = evaluation[r][1].scores
            /\ Pending(r).suggestions = evaluation[r][1].suggestions]_vars

C21_Witness ==
  \E r \in Reqs :
    /\ pc[r] = "done" /\ req[r].op = "evaluate" /\ resp[r].status = 201
    /\ calls[r].provider = 1
    /\ voice_evaluations # {}

(* C22: a generate request with neither a non-empty urls list nor a        *)
(* non-empty writing_samples list is answered 422 at once, before the      *)
(* handler runs: no brand lookup, no page fetch, no gateway call and no    *)
(* write; every generate request that gets further carries an input.       *)
C22_EmptyInputsRejectedFirst ==
  /\ [](\A r \in Reqs :
          pc[r] \in {"g_max", "g_fetch", "g_llm", "g_commit"} =>
            validate_inputs(req[r].urls, req[r].writing_samples))
  /\ [][\A r \in Reqs : Started(r, "generate") =>
          IF req'[r].urls = <<>> /\ req'[r].writing_samples = <<>>
            THEN /\ resp'[r].status = 422
                 /\ resp'[r].service = ""
                 /\ calls'[r] = NoCalls
                 /\ tables' = tables
                 /\ voice_profile'[r] = <<>>
            ELSE /\ resp'[r].status = 404
                 /\ resp'[r].service = "returned_failure"]_vars

C22_Witness ==
  \E r \in Reqs :
    /\ pc[r] = "done" /\ req[r].op = "generate" /\ resp[r].status = 422
    /\ brands = {}

(* C23: a generate or evaluate request calls the provider at most once: it *)
(* reaches its gateway call with no call made, leaves it after exactly one *)
(* call and never comes back to it; when the call raises, the request ends *)
(* there with the error raised to its own caller and nothing stored.       *)
C23_ProviderCalledAtMostOnce ==
  /\ [](\A r \in Reqs :
          /\ calls[r].provider \in {0, 1}
          /\ pc[r] \in {"g_llm", "e_llm"} => calls[r].provider = 0
          /\ pc[r] \in {"g_commit", "e_commit"} => calls[r].provider = 1)
  /\ [][\A r \in Reqs :
          /\ (pc[r] \in {"g_llm", "e_llm"} /\ calls'[r] # calls[r]) =>
               /\ calls'[r].provider = 1
               /\ pc'[r] \in {"done", "g_commit", "e_commit"}
          /\ (Ended(r) /\ resp'[r].error = "ProviderError") =>
               /\ pc[r] \in {"g_llm", "e_llm"}
               /\ calls'[r].provider = 1
               /\ resp'[r].status = 500
               /\ resp'[r].service = "raised"
               /\ tables' = tables
               /\ session'[r] = {}]_vars

C23_Witness ==
  \E r1, r2 \in Reqs :
    /\ pc[r1] = "done" /\ req[r1].op = "generate" /\ resp[r1].error = "ProviderError"
    /\ pc[r2] = "done" /\ req[r2].op = "evaluate" /\ resp[r2].error = "ProviderError"
    /\ calls[r1].provider = 1 /\ calls[r2].provider = 1

(* C24: a request that has begun always has a next step of its own open,   *)
(* whatever the other requests are doing, and eventually ends with a       *)
(* success or a failure response; create brand and the lookups begin and   *)
(* end in one step.                                                        *)
C24_RequestsRunToCompletion ==
  /\ [](\A r \in Reqs :
          /\ pc[r] \notin {"idle", "done"} => ENABLED <<Progress(r)>>_vars
          /\ pc[r] = "done" => resp[r].status \in {200, 201, 404, 422, 500})
  /\ \A r \in Reqs : (pc[r] \notin {"idle", "done"}) ~> (pc[r] = "done")

C24_Witness ==
  \E r1, r2 \in Reqs :
    /\ pc[r1] = "done" /\ req[r1].op = "generate" /\ resp[r1].status = 201
    /\ pc[r2] = "g_llm"

(* C25: in every reachable state the versions stored for a brand are       *)
(* exactly 1..n, n being the number of its profiles: the latest lookup     *)
(* answers with version n (or with nothing when n = 0), and the lookup by  *)
(* version k finds the profile of version k for 1 <= k <= n and nothing    *)
(* for any other k, such as 0, n + 1 or 99.                                *)
C25_VersionsAreOneToN ==
  \A b \in BrandIds :
    LET n == Cardinality(ProfilesOf(b)) IN
    /\ StoredVersions(b) = 1..n
    /\ IF n = 0 THEN get_latest_voice_profile(b) = <<>>
       ELSE /\ get_latest_voice_profile(b) # <<>>
            /\ get_latest_voice_profile(b)[1].version = n
            /\ get_latest_voice_profile(b)[1].brand_id = b
    /\ \A k \in (0..(MaxUuid + 2)) \cup {99} :
         IF k \in 1..n
           THEN /\ get_voice_profile_by_version(b, k) # <<>>
                /\ get_voice_profile_by_version(b, k)[1].version = k
                /\ get_voice_profile_by_version(b, k)[1].brand_id = b
           ELSE get_voice_profile_by_version(b, k) = <<>>

C25_Witness ==
  \E b \in BrandIds, r \in Reqs :
    /\ Cardinality(ProfilesOf(b)) = 2
    /\ get_latest_voice_profile(b)[1].version = 2
    /\ get_voice_profile_by_version(b, 99) = <<>>
    /\ pc[r] = "done" /\ req[r].op = "generate" /\ resp[r].status = 500

C27_StoredRecordsNeverChange ==
  [][/\ brands \subseteq brands'
     /\ voice_profiles \subseteq voice_profiles'
     /\ \A r \in Reqs :
          /\ (pc[r] \in {"g_max", "g_fetch", "g_llm", "g_commit"} /\ pc'[r] # pc[r]) =>
               /\ brands' = brands
               /\ voice_evaluations' = voice_evaluations
               /\ \A b \in BrandIds \ {req[r].brand_id} : ProfilesOf(b)' = ProfilesOf(b)
               /\ \A p \in voice_profiles' \ voice_profiles : p.brand_id = req[r].brand_id
          /\ (pc[r] \in {"e_llm", "e_commit"} /\ pc'[r] # pc[r]) =>
               /\ brands' = brands
               /\ voice_profiles' = voice_profiles
          /\ (pc[r] = "idle" /\ pc'[r] \in {"g_max", "e_llm"}) => tables' = tables
          /\ (Started(r, "generate") \/ Started(r, "evaluate") \/ Started(r, "get_latest")
                \/ Started(r, "get_version") \/ Started(r, "get_brand")) => tables' = tables
          /\ Started(r, "create_brand") =>
               /\ voice_profiles' = voice_profiles
               /\ voice_evaluations' = voice_evaluations]_vars

C27_Witness ==
  \E r \in Reqs :
    /\ pc[r] = "done" /\ req[r].op = "generate" /\ resp[r].status = 201
    /\ \A b \in BrandIds : ProfilesOf(b) # {}
    /\ Cardinality(brands) = 2

(* The max-version read of request r is stale: a profile of its brand with *)
(* the version it computed, or a later one, has been committed since.      *)
Stale(r) ==
  /\ pc[r] \in {"g_fetch", "g_llm", "g_commit"}
  /\ LatestVersion(req[r].brand_id) >= next_version[r]

C29_EvaluationReferencesProfileOfBrand ==
  /\ \A r \in Reqs :
       pc[r] = "e_commit" =>
         /\ Pending(r).brand_id = req[r].brand_id
         /\ get_voice_profile_by_version(req[r].brand_id, req[r].version) # <<>>
         /\ Pending(r).voice_profile_id =
              get_voice_profile_by_version(req[r].brand_id, req[r].version)[1].id
  /\ \A e \in voice_evaluations :
       \E p \in voice_profiles :
         /\ p.id = e.voice_profile_id
         /\ p.brand_id = e.brand_id

C29_Witness ==
  /\ Cardinality(brands) = 2
  /\ \E e \in voice_evaluations, p \in voice_profiles :
       /\ p.id = e.voice_profile_id
       /\ p.brand_id = e.brand_id
       /\ e.brand_id = 2

(* Some page fetch of request r failed: its site text holds the error      *)
(* string fetch_page_text returned.                                        *)
FetchFailed(r) ==
  \E i \in DOMAIN site_text[r] : site_text[r][i] = "Error fetching url"

(* C30: the fetch step of a generate request never ends the request: each  *)
(* url yields the page text or the error string, and the request goes on   *)
(* to the gateway call with that site text.  A request whose fetch failed  *)
(* can get a profile from the gateway and store it with the version it     *)
(* computed, and whenever it ends 201 that is what it stored.              *)
C30_FailedFetchDoesNotFailGenerate ==
  /\ [](\A r \in Reqs :
          /\ (pc[r] = "g_llm" /\ FetchFailed(r) /\ uuid4 <= MaxUuid) =>
               ENABLED (GenLLMReturns(r) /\ pc'[r] = "g_commit"
                          /\ site_text'[r] = site_text[r])
          /\ (pc[r] = "g_commit" /\ FetchFailed(r) /\ ~Conflict(Pending(r))) =>
               ENABLED (GenCommit(r) /\ resp'[r].status = 201
                          /\ voice_profiles' = voice_profiles \cup {Pending(r)}))
  /\ [][\A r \in Reqs :
          /\ (pc[r] = "g_fetch" /\ pc'[r] # "g_fetch") =>
               /\ pc'[r] = "g_llm"
               /\ resp'[r] = NoResponse
               /\ tables' = tables
               /\ next_version'[r] = next_version[r]
               /\ Len(site_text'[r]) = Len(req[r].urls)
               /\ \A i \in DOMAIN site_text'[r] :
                    site_text'[r][i] \in {"page text", "Error fetching url"}
          /\ (pc[r] = "g_commit" /\ FetchFailed(r) /\ Ended(r) /\ resp'[r].status = 201) =>
               /\ voice_profiles' = voice_profiles \cup {Pending(r)}
               /\ Pending(r).version = next_version[r]]_vars

C30_Witness ==
  \E r \in Reqs :
    /\ pc[r] = "g_commit"
    /\ FetchFailed(r)
    /\ ~Conflict(Pending(r))
    /\ Pending(r).version = 2

====
